---- MODULE Spec2Model ----
(***************************************************************************)
(* Silver layer ETL (src/glue_jobs/silver-layer-etl.py): one run of the    *)
(* script is a sequence of sections (load, beneficiary, clean, unify,      *)
(* prescription, diagnosis, catalog, summary); the only state that         *)
(* survives a run is the content of the four silver locations.             *)
(* Upstream of it, the validator (src/lambda/data-validator.py) answers    *)
(* one invocation: list the files, validate each CSV file, respond.        *)
(***************************************************************************)
EXTENDS Integers, Sequences, FiniteSets, TLC

\* ------------------------------------------------------------------ bounds
MaxIds == 2
MaxTs == 3
MaxDay == 3
MaxSnapshots == 3
MaxClaimRows == 2
MaxMissing == 1
MaxRuns == 2
MaxFaults == 2
MaxObjects == 3

\* --------------------------------------------------------------- constants
\* SQL NULL of a numeric or date column (lead() past the end of the window)
NULL == -999999
\* to_date(lit('9999-12-31'))
Sentinel == 99991231
\* a bronze_load_date is a calendar date, written yyyymmdd
DayBase == 20240100
\* when(col('payment_amount') > 10000, ...)
HighCost == 10000

VARIABLES pc, run, faults, bronze,
          beneficiary_df, inpatient_df, outpatient_df, carrier_df, prescription_df,
          beneficiary_scd, inpatient_clean, outpatient_clean, carrier_clean,
          claims_unified, prescription_clean, diagnosis_normalized,
          s3, log, raised, wrote, last_out, prev_scd,
          v_pc, event, listing, csv_files, validation_results, response, notification

vars == <<pc, run, faults, bronze,
          beneficiary_df, inpatient_df, outpatient_df, carrier_df, prescription_df,
          beneficiary_scd, inpatient_clean, outpatient_clean, carrier_clean,
          claims_unified, prescription_clean, diagnosis_normalized,
          s3, log, raised, wrote, last_out, prev_scd,
          v_pc, event, listing, csv_files, validation_results, response, notification>>

\* the state of one invocation of the validator
validator == <<v_pc, event, listing, csv_files, validation_results, response, notification>>

sources == <<beneficiary_df, inpatient_df, outpatient_df, carrier_df, prescription_df>>
cleans == <<inpatient_clean, outpatient_clean, carrier_clean>>
results == <<beneficiary_scd, claims_unified, prescription_clean, diagnosis_normalized>>
ghosts == <<raised, wrote, last_out, prev_scd>>

\* the state of the ETL job
etl == <<pc, run, faults, bronze, sources, cleans, results, s3, log, ghosts>>

\* ------------------------------------------------------------- data frames
\* A DataFrame variable holds None or a frame: the column names in schema
\* order and the rows.
None == [isNone |-> TRUE, cols |-> <<>>, rows |-> <<>>]

Frame(c, r) == [isNone |-> FALSE, cols |-> c, rows |-> r]

Tables == {"beneficiary", "inpatient", "outpatient", "carrier", "prescription"}

Datasets == {"beneficiary_clean", "claims_unified", "prescriptions_clean", "diagnosis_normalized"}

Range(f) == {f[k] : k \in DOMAIN f}

Min(S) == CHOOSE x \in S : \A y \in S : x <= y

\* ------------------------------------------------ beneficiary snapshots
Ids == 1..MaxIds
Timestamps == 1..MaxTs
LoadDates == {DayBase + d : d \in 1..MaxDay}

BeneficiaryCols == <<"desynpuf_id", "bene_birth_dt", "bene_death_dt", "bene_sex_ident_cd",
                     "bene_race_cd", "bronze_load_timestamp", "bronze_load_date">>

\* a snapshot row keeps, of its columns, the beneficiary id, the load stamps
\* and, under flags, the value of each indicator column of its table
NoFlags == [c \in {} |-> ""]

Snapshots == [desynpuf_id : Ids, bronze_load_timestamp : Timestamps, bronze_load_date : LoadDates,
              flags : {NoFlags}]

\* a DataFrame is a bag of rows: one representative sequence per bag
RowCode(s) == (s.desynpuf_id * (MaxTs + 1) + s.bronze_load_timestamp) * (MaxDay + 1)
              + (s.bronze_load_date - DayBase)

IsCanonical(rows) == \A i \in 1..Len(rows) : \A j \in 1..Len(rows) :
                        i < j => RowCode(rows[i]) <= RowCode(rows[j])

SnapshotBags(n) == UNION {{r \in [1..k -> Snapshots] : IsCanonical(r)} : k \in 0..n}

\* ---------------------------------------------------- SCD Type 2 (117-129)
Arrangements(n) == {f \in [1..n -> 1..n] : \A i \in 1..n : \A j \in 1..n : f[i] = f[j] => i = j}

\* Window.partitionBy('desynpuf_id').orderBy('bronze_load_timestamp'): every
\* arrangement of the rows that is ascending in the timestamp inside each
\* partition; rows with equal timestamps come in any order.
WindowOrders(rows) ==
    {ord \in Arrangements(Len(rows)) :
        \A p \in 1..Len(rows) : \A q \in 1..Len(rows) :
            (p < q /\ rows[ord[p]].desynpuf_id = rows[ord[q]].desynpuf_id)
                => rows[ord[p]].bronze_load_timestamp <= rows[ord[q]].bronze_load_timestamp}

PositionOf(ord, i) == CHOOSE p \in DOMAIN ord : ord[p] = i

\* a window without partitionBy: every later position
LaterInAnyPartition(rows, ord, p) == (p + 1)..Len(rows)

\* positions after p that belong to the same partition
LaterInPartition(rows, ord, p) ==
    {q \in (p + 1)..Len(rows) : rows[ord[q]].desynpuf_id = rows[ord[p]].desynpuf_id}

\* lag() in place of lead(): the date of the row before
LagForLead(rows, ord, p) ==
    LET earlier == {q \in 1..(p - 1) : rows[ord[q]].desynpuf_id = rows[ord[p]].desynpuf_id}
    IN  IF earlier = {} THEN NULL
        ELSE rows[ord[CHOOSE q \in earlier : \A e \in earlier : e <= q]].bronze_load_date

\* lead(col('bronze_load_date')).over(window_spec)
Lead(rows, ord, p) ==
    IF LaterInPartition(rows, ord, p) = {} THEN NULL
    ELSE rows[ord[Min(LaterInPartition(rows, ord, p))]].bronze_load_date

\* ------------------------------------------- chronic conditions (100-115)
chronic_cols == <<"sp_alzhdmta", "sp_chf", "sp_chrnkidn", "sp_cncr", "sp_copd",
                  "sp_depressn", "sp_diabetes", "sp_ischmcht", "sp_osteoprs",
                  "sp_ra_oa", "sp_strketia">>

\* [c for c in chronic_cols if c in beneficiary_clean.columns]
existing_chronic_cols(cols) == SelectSeq(chronic_cols, LAMBDA c : c \in Range(cols))

\* any value that is not NULL taken as present
ChronicFlagNotNull(cell) == IF ~cell.null THEN 1 ELSE 0

\* when(col(c) == '1', 1).otherwise(0)
ChronicFlag(cell) == IF ~cell.null /\ cell.s = "1" THEN 1 ELSE 0

\* chronic_expr: the first column's term, then + the term of each other one
RECURSIVE chronic_expr(_, _)
chronic_expr(flags, existing) ==
    IF Len(existing) = 1 THEN ChronicFlag(flags[existing[1]])
    ELSE chronic_expr(flags, SubSeq(existing, 1, Len(existing) - 1))
         + ChronicFlag(flags[existing[Len(existing)]])

\* the value of withColumn('chronic_condition_count', ...) on one row
ChronicConditionCount(cols, snap) ==
    IF existing_chronic_cols(cols) # <<>> THEN chronic_expr(snap.flags, existing_chronic_cols(cols))
    ELSE 0

\* the last withColumn left out: the open end stays NULL
ScdRowOpenEnd(cols, rows, ord, p) ==
    LET snap == rows[ord[p]]
        lead_date == Lead(rows, ord, p)
    IN  [desynpuf_id |-> snap.desynpuf_id,
         bronze_load_timestamp |-> snap.bronze_load_timestamp,
         bronze_load_date |-> snap.bronze_load_date,
         flags |-> snap.flags,
         chronic_condition_count |-> ChronicConditionCount(cols, snap),
         effective_start_date |-> snap.bronze_load_date,
         is_current |-> IF lead_date = NULL THEN TRUE ELSE FALSE,
         effective_end_date |-> lead_date]

\* the chronic condition count and the four withColumn calls of lines
\* 120-129, for the row at position p
ScdRow(cols, rows, ord, p) ==
    LET snap == rows[ord[p]]
        lead_date == Lead(rows, ord, p)
    IN  [desynpuf_id |-> snap.desynpuf_id,
         bronze_load_timestamp |-> snap.bronze_load_timestamp,
         bronze_load_date |-> snap.bronze_load_date,
         flags |-> snap.flags,
         chronic_condition_count |-> ChronicConditionCount(cols, snap),
         effective_start_date |-> snap.bronze_load_date,
         is_current |-> IF lead_date = NULL THEN TRUE ELSE FALSE,
         effective_end_date |-> IF lead_date = NULL THEN Sentinel ELSE lead_date]

\* beneficiary_scd: one output row per input row, kept at the input's index
BuildScd(df, ord) ==
    Frame(df.cols \o <<"age", "is_deceased", "gender", "race", "chronic_condition_count",
                       "effective_start_date", "effective_end_date", "is_current">>,
          [i \in 1..Len(df.rows) |-> ScdRow(df.cols, df.rows, ord, PositionOf(ord, i))])

\* the columns the beneficiary section reads with col(...), partitionBy and
\* orderBy: one of them missing raises AnalysisException inside the try block
BeneficiaryRaises(df) ==
    \E c \in {"bene_birth_dt", "bene_death_dt", "bene_sex_ident_cd", "bene_race_cd",
               "desynpuf_id", "bronze_load_timestamp", "bronze_load_date"} : c \notin Range(df.cols)

\* ------------------------------------------------------------------ cells
\* A claims frame is positional, as a Spark DataFrame is: a row is a sequence
\* of cells aligned with the frame's column names.  A cell carries its SQL
\* type, so that union() can be resolved by position and type.
Num(ty, v) == [ty |-> ty, null |-> FALSE, s |-> "", n |-> v, d |-> 1]

Str(v) == [ty |-> "string", null |-> FALSE, s |-> v, n |-> 0, d |-> 1]

Bool(b) == [ty |-> "boolean", null |-> FALSE, s |-> "", n |-> IF b THEN 1 ELSE 0, d |-> 1]

\* a numeric cell holding the fraction n / d, d > 0
Frac(ty, n, d) == [ty |-> ty, null |-> FALSE, s |-> "", n |-> n, d |-> d]

NullOf(ty) == [ty |-> ty, null |-> TRUE, s |-> "", n |-> 0, d |-> 1]

Has(df, c) == \E k \in DOMAIN df.cols : df.cols[k] = c

Idx(cols, c) == CHOOSE k \in DOMAIN cols : cols[k] = c

\* col(c) evaluated on one row of df
Col(df, row, c) == row[Idx(df.cols, c)]

\* df.withColumn(c, expr), vals[i] being expr on row i: replaces the column
\* in place when it exists, else appends it
WithColumn(df, c, vals) ==
    IF Has(df, c)
    THEN Frame(df.cols, [i \in DOMAIN df.rows |-> [df.rows[i] EXCEPT ![Idx(df.cols, c)] = vals[i]]])
    ELSE Frame(Append(df.cols, c), [i \in DOMAIN df.rows |-> Append(df.rows[i], vals[i])])

\* df.select(*names)
Select(df, names) ==
    Frame(names, [i \in DOMAIN df.rows |-> [k \in DOMAIN names |-> Col(df, df.rows[i], names[k])]])

\* [c for c in wanted if c in df.columns]
Present(wanted, df) == SelectSeq(wanted, LAMBDA c : Has(df, c))

\* ------------------------------------------------------------------ dates
YearOf(d) == d \div 10000

MonthOf(d) == (d \div 100) % 100

DayOf(d) == d % 100

IsLeap(y) == (y % 4 = 0 /\ y % 100 # 0) \/ y % 400 = 0

DaysInMonth(y, m) ==
    IF m = 2 THEN (IF IsLeap(y) THEN 29 ELSE 28)
    ELSE IF m \in {4, 6, 9, 11} THEN 30 ELSE 31

IsDateCode(d) == /\ d >= 10101
                 /\ MonthOf(d) \in 1..12
                 /\ DayOf(d) \in 1..DaysInMonth(YearOf(d), MonthOf(d))

RECURSIVE DaysBeforeMonth(_, _)
DaysBeforeMonth(y, m) == IF m = 1 THEN 0 ELSE DaysBeforeMonth(y, m - 1) + DaysInMonth(y, m - 1)

\* days since a fixed epoch, for datediff
DayNumber(d) ==
    LET y == YearOf(d) - 1
    IN  365 * y + (y \div 4) - (y \div 100) + (y \div 400) + DaysBeforeMonth(YearOf(d), MonthOf(d)) + DayOf(d)

\* to_date(col, 'yyyyMMdd'): NULL for a NULL or unparsable code
ToDate(cell) ==
    IF cell.null \/ ~IsDateCode(cell.n) THEN NullOf("date") ELSE Num("date", cell.n)

\* datediff(a, b)
DateDiff(a, b) ==
    IF a.null \/ b.null THEN NullOf("int") ELSE Num("int", DayNumber(a.n) - DayNumber(b.n))

\* year(), month(), quarter()
DatePart(cell, part) ==
    IF cell.null THEN NullOf("int")
    ELSE Num("int", IF part = "year" THEN YearOf(cell.n)
                    ELSE IF part = "month" THEN MonthOf(cell.n)
                    ELSE ((MonthOf(cell.n) - 1) \div 3) + 1)

\* datediff alone, without the + 1
PlusNothing(cell) == cell

PlusOne(cell) == IF cell.null THEN cell ELSE Num(cell.ty, cell.n + 1)

\* col.cast(DoubleType())
CastDouble(cell) == IF cell.null THEN NullOf("double") ELSE Frac("double", cell.n, cell.d)

\* ------------------------------------------- clean_claims_data (146-179)
\* col('clm_from_dt') or col('clm_thru_dt') on a frame without that column
\* raises AnalysisException inside the try block
CleanRaises(df) == ~Has(df, "clm_from_dt") \/ ~Has(df, "clm_thru_dt")

\* df.withColumn(c, to_date(col(src), 'yyyyMMdd'))
WithDate(df, c, src) ==
    WithColumn(df, c, [i \in DOMAIN df.rows |-> ToDate(Col(df, df.rows[i], src))])

\* df.withColumn(c, year(col(src))), and month and quarter alike
WithDatePart(df, c, src, part) ==
    WithColumn(df, c, [i \in DOMAIN df.rows |-> DatePart(Col(df, df.rows[i], src), part)])

\* df.withColumn(c, lit(cell))
WithLit(df, c, cell) == WithColumn(df, c, [i \in DOMAIN df.rows |-> cell])

\* df.withColumn(c, col(src).cast(DoubleType()))
WithDouble(df, c, src) ==
    WithColumn(df, c, [i \in DOMAIN df.rows |-> CastDouble(Col(df, df.rows[i], src))])

ParseDates(df) == WithDate(WithDate(df, "clm_from_dt", "clm_from_dt"), "clm_thru_dt", "clm_thru_dt")

\* df.withColumn('claim_duration_days', datediff(col('clm_thru_dt'), col('clm_from_dt')) + 1)
WithDuration(df) ==
    WithColumn(df, "claim_duration_days",
        [i \in DOMAIN df.rows |->
            PlusOne(DateDiff(Col(df, df.rows[i], "clm_thru_dt"), Col(df, df.rows[i], "clm_from_dt")))])

AddTimeDimensions(df) ==
    WithDatePart(
        WithDatePart(
            WithDatePart(WithDuration(df), "claim_year", "clm_from_dt", "year"),
            "claim_month", "clm_from_dt", "month"),
        "claim_quarter", "clm_from_dt", "quarter")

StandardizePayment(df) ==
    IF Has(df, "clm_pmt_amt")
    THEN WithDouble(df, "payment_amount", "clm_pmt_amt")
    ELSE WithLit(df, "payment_amount", Num("double", 0))

clean_claims_data(df, claim_type) ==
    IF df.isNone THEN None
    ELSE IF CleanRaises(df) THEN None
    ELSE StandardizePayment(
             AddTimeDimensions(
                 WithLit(ParseDates(df), "claim_type", Str(claim_type))))

\* ------------------------------------------------ claims_unified (189-249)
common_cols == <<"desynpuf_id", "clm_id", "clm_from_dt", "clm_thru_dt",
                 "claim_type", "claim_duration_days", "claim_year", "claim_month",
                 "payment_amount", "bronze_load_timestamp">>

\* x_subset = x_clean.select(*[c for c in common_cols if c in x_clean.columns])
Subset(clean) == Select(clean, Present(common_cols, clean))

\* claims_dfs after the three appends, in the order inpatient, outpatient, carrier
ClaimsDfs(inp, outp, car) ==
    (IF inp.isNone THEN <<>> ELSE <<Subset(inp)>>)
    \o (IF outp.isNone THEN <<>> ELSE <<Subset(outp)>>)
    \o (IF car.isNone THEN <<>> ELSE <<Subset(car)>>)

\* the SQL type of each common column after cleansing
TypeOf(c) ==
    IF c \in {"desynpuf_id", "clm_id", "claim_type"} THEN "string"
    ELSE IF c \in {"clm_from_dt", "clm_thru_dt"} THEN "date"
    ELSE IF c \in {"claim_duration_days", "claim_year", "claim_month"} THEN "int"
    ELSE IF c = "payment_amount" THEN "double"
    ELSE "timestamp"

ColType(df, k) == TypeOf(df.cols[k])

\* Spark's wider type of two column types for a set operation: equal types,
\* two numeric types, date with timestamp, and string with any of those
Numeric == {"int", "double"}

Widenable(a, b) ==
    \/ a = b
    \/ (a \in Numeric /\ b \in Numeric)
    \/ {a, b} = {"date", "timestamp"}
    \/ (a = "string" /\ b # "boolean") \/ (b = "string" /\ a # "boolean")

\* DataFrame.union resolves columns by position: it raises AnalysisException
\* unless both sides have the same number of columns of compatible types
UnionRaises(a, b) ==
    \/ Len(a.cols) # Len(b.cols)
    \/ \E k \in DOMAIN a.cols : ~Widenable(ColType(a, k), ColType(b, k))

\* a.union(b): the rows of b follow those of a under the column names of a
Union(a, b) == Frame(a.cols, a.rows \o b.rows)

RECURSIVE UnionAllRaises(_)
UnionAllRaises(dfs) ==
    IF Len(dfs) <= 1 THEN FALSE
    ELSE \/ UnionRaises(dfs[1], dfs[2])
         \/ UnionAllRaises(<<Union(dfs[1], dfs[2])>> \o SubSeq(dfs, 3, Len(dfs)))

RECURSIVE UnionAll(_)
UnionAll(dfs) ==
    IF Len(dfs) = 1 THEN dfs[1]
    ELSE UnionAll(<<Union(dfs[1], dfs[2])>> \o SubSeq(dfs, 3, Len(dfs)))

\* the comparison taken as >= : col('payment_amount') >= 10000
IsHighCostInclusive(cell) == Bool(~cell.null /\ cell.n >= HighCost * cell.d)

\* when(col('payment_amount') > 10000, lit(True)).otherwise(lit(False))
IsHighCost(cell) == Bool(~cell.null /\ cell.n > HighCost * cell.d)

AddHighCost(df) ==
    WithColumn(df, "is_high_cost", [i \in DOMAIN df.rows |-> IsHighCost(Col(df, df.rows[i], "payment_amount"))])

\* -------------------------------------------- prescription_clean (260-274)
PrescriptionCols == <<"desynpuf_id", "pde_id", "srvc_dt", "qty_dspnsd_num",
                      "days_suply_num", "tot_rx_cst_amt", "ptnt_pay_amt">>

\* the columns the chain of withColumn calls reads with col(...)
PrescriptionRaises(df) ==
    \E c \in {"srvc_dt", "qty_dspnsd_num", "days_suply_num", "tot_rx_cst_amt", "ptnt_pay_amt"} : ~Has(df, c)

\* the integral part of n / d: a cast to an integer truncates towards zero
Truncate(n, d) == IF n >= 0 THEN n \div d ELSE 0 - ((0 - n) \div d)

\* col.cast(IntegerType())
CastInt(cell) == IF cell.null THEN NullOf("int") ELSE Num("int", Truncate(cell.n, cell.d))

\* a / b on doubles, kept as an exact quotient
Div(a, b) == Frac("double", a.n * b.d, a.d * b.n)

\* the guard without its comparisons: any value that is not NULL
NotNull(cell) == ~cell.null

\* col > 0, NULL counting as not true
Positive(cell) == ~cell.null /\ cell.n > 0

CostPerDay(days_supply, total_cost) ==
    IF Positive(days_supply) /\ Positive(total_cost) THEN Div(total_cost, days_supply)
    ELSE Num("double", 0)

\* df.withColumn(c, col(src).cast(IntegerType()))
WithInt(df, c, src) ==
    WithColumn(df, c, [i \in DOMAIN df.rows |-> CastInt(Col(df, df.rows[i], src))])

\* when(col('ptnt_pay_amt').isNotNull(), col('ptnt_pay_amt').cast(DoubleType())).otherwise(lit(0.0))
PatientPay(cell) == IF ~cell.null THEN CastDouble(cell) ELSE Num("double", 0)

WithPatientPay(df) ==
    WithColumn(df, "patient_pay", [i \in DOMAIN df.rows |-> PatientPay(Col(df, df.rows[i], "ptnt_pay_amt"))])

WithCostPerDay(df) ==
    WithColumn(df, "cost_per_day",
        [i \in DOMAIN df.rows |->
            CostPerDay(Col(df, df.rows[i], "days_supply"), Col(df, df.rows[i], "total_cost"))])

PrescriptionClean(df) ==
    WithCostPerDay(
        WithPatientPay(
            WithDouble(
                WithInt(
                    WithInt(
                        WithDatePart(
                            WithDatePart(WithDate(df, "srvc_dt", "srvc_dt"),
                                "prescription_year", "srvc_dt", "year"),
                            "prescription_month", "srvc_dt", "month"),
                        "qty_dispensed", "qty_dspnsd_num"),
                    "days_supply", "days_suply_num"),
                "total_cost", "tot_rx_cst_amt")))

\* ------------------------------------------ diagnosis_normalized (293-339)
DiagSlotNames == <<"icd9_dgns_cd_1", "icd9_dgns_cd_2">>

\* c.startswith('icd9_dgns_cd_')
IsDiagCol(c) == c \in Range(DiagSlotNames)

\* diagnosis_cols, in the order of inpatient_clean.columns
DiagnosisCols(clean) == SelectSeq(clean.cols, IsDiagCol)

\* the select of lines 307-312 reads these columns with col(...)
DiagnosisRaises(clean) == ~Has(clean, "desynpuf_id") \/ ~Has(clean, "clm_id")

DiagnosisOutCols == <<"desynpuf_id", "clm_id", "clm_from_dt", "diagnosis_code", "diagnosis_sequence">>

\* the filter without its second conjunct: col(diag_col).isNotNull()
IsNotNull(cell) == ~cell.null

\* col(diag_col).isNotNull() & (col(diag_col) != '')
HasCode(cell) == ~cell.null /\ cell.s # ""

\* diag_df of one loop iteration
DiagDf(clean, diag_col, idx) ==
    LET kept == SelectSeq(clean.rows, LAMBDA r : HasCode(Col(clean, r, diag_col)))
    IN  Frame(DiagnosisOutCols,
              [i \in DOMAIN kept |-> <<Col(clean, kept[i], "desynpuf_id"),
                                       Col(clean, kept[i], "clm_id"),
                                       Col(clean, kept[i], "clm_from_dt"),
                                       Col(clean, kept[i], diag_col),
                                       Num("int", idx)>>])

\* diagnosis_records: one frame per diagnosis column, numbered from 1
DiagnosisRecords(clean) ==
    [idx \in DOMAIN DiagnosisCols(clean) |-> DiagDf(clean, DiagnosisCols(clean)[idx], idx)]

\* ------------------------------------------------------------ sink writer
\* mode('append'): the rows of df are added to what was stored
WriteAppend(store, dataset, df, r) ==
    [store EXCEPT ![dataset] = @ \o [i \in DOMAIN df.rows |-> [run |-> r, row |-> df.rows[i]]]]

\* df.write.mode('overwrite')...parquet(output_path): what was stored at the
\* location is replaced by the rows of df; every stored row remembers the run
\* that wrote it.
Write(store, dataset, df, r) ==
    [store EXCEPT ![dataset] = [i \in DOMAIN df.rows |-> [run |-> r, row |-> df.rows[i]]]]

\* except Exception: <result> = None
ResultAfter(out, exception) == IF exception THEN None ELSE out

\* no try block: an exception raised inside a section ends the script
AfterBranchUncaught(following, exception) == IF exception THEN "crashed" ELSE following

\* try: ... except Exception: an exception raised inside a section is caught
\* at its end, and the script goes on with the section that follows
AfterBranch(following, exception) == following

\* what a materialization point (a write or a count) may do
FaultChoices(kinds) == {"none"} \cup (IF faults > 0 THEN kinds ELSE {})

Spend(fail) == faults' = IF fail = "none" THEN faults ELSE faults - 1

\* the tail of a branch's try block: write, count, print; before = an
\* exception was raised before the write completed, after = by the count()
\* that follows the write
WriteThenCount(dataset, out, before, after) ==
    /\ s3' = IF before THEN s3 ELSE Write(s3, dataset, out, run)
    /\ last_out' = IF before THEN last_out
                   ELSE [last_out EXCEPT ![dataset] = [run |-> run, frame |-> out]]
    /\ wrote' = IF before THEN wrote ELSE wrote \cup {dataset}
    /\ raised' = IF before \/ after THEN raised \cup {dataset} ELSE raised
    /\ log' = log \cup {IF before \/ after THEN <<"error", dataset>> ELSE <<"ok", dataset>>}

\* a section that is skipped or only prints
NoWrite == UNCHANGED <<s3, last_out, wrote, raised>>

\* ------------------------------------------------------------------ inputs
Snap(id, ts, day) ==
    [desynpuf_id |-> id, bronze_load_timestamp |-> ts, bronze_load_date |-> DayBase + day, flags |-> NoFlags]

BronzeBeneficiary(n) == {Frame(BeneficiaryCols, r) : r \in SnapshotBags(n)}

BaseSchema(table) ==
    IF table = "inpatient"
    THEN <<"desynpuf_id", "clm_id", "clm_from_dt", "clm_thru_dt", "clm_pmt_amt">>
         \o DiagSlotNames \o <<"bronze_load_timestamp">>
    ELSE IF table = "outpatient"
    THEN <<"desynpuf_id", "clm_id", "clm_from_dt", "clm_thru_dt", "clm_pmt_amt", "bronze_load_timestamp">>
    ELSE <<"desynpuf_id", "clm_id", "clm_from_dt", "clm_thru_dt", "icd9_dgns_cd_1", "bronze_load_timestamp">>

\* the sample row of each bronze table
SampleCell(table, c) ==
    IF c = "desynpuf_id" THEN Str("B1")
    ELSE IF c \in {"clm_id", "pde_id"} THEN Str(table)
    ELSE IF c = "clm_from_dt" THEN Num("int", 20080101)
    ELSE IF c = "clm_thru_dt" THEN Num("int", 20080105)
    ELSE IF c = "clm_pmt_amt" THEN Num("double", IF table = "inpatient" THEN 15000 ELSE 500)
    ELSE IF c = "icd9_dgns_cd_1" THEN Str("25000")
    ELSE IF c = "icd9_dgns_cd_2" THEN Str("")
    ELSE IF c = "bronze_load_timestamp" THEN Num("timestamp", 1)
    ELSE IF c = "srvc_dt" THEN Num("int", 20080110)
    ELSE IF c = "qty_dspnsd_num" THEN Num("int", 30)
    ELSE IF c = "days_suply_num" THEN Num("int", 0)
    ELSE IF c = "tot_rx_cst_amt" THEN Num("double", 300)
    ELSE NullOf("double")

\* a bronze table with the given columns and k copies of its sample row
SampleFrame(table, schema, k) ==
    Frame(schema, [i \in 1..k |-> [j \in DOMAIN schema |-> SampleCell(table, schema[j])]])

Without(schema, dropped) == SelectSeq(schema, LAMBDA c : c \notin dropped)

Droppable == {"desynpuf_id", "clm_id", "clm_from_dt", "bronze_load_timestamp"}

\* the bronze claim tables with up to MaxMissing of the droppable columns
\* missing and up to MaxClaimRows rows
BronzeClaims(table) ==
    {None} \cup
    {SampleFrame(table, Without(BaseSchema(table), dropped), k) :
        dropped \in {D \in SUBSET Droppable : Cardinality(D) <= MaxMissing}, k \in 0..MaxClaimRows}

NoTables == [t \in Tables |-> None]

\* what an indicator column of a snapshot may hold: present, not present, NULL
FlagCells == {Str("1"), Str("2"), NullOf("string")}

\* the indicator columns of a beneficiary table, in schema order: none, one,
\* two next to a column outside the list, and all eleven
FewIndicators == {<<>>, <<"sp_chf">>, <<"sp_diabetes", "sp_state_code", "sp_chf">>}

\* a beneficiary table of one snapshot with the given indicator columns
FlagFrame(indicators, flags, dropped) ==
    Frame(Without(BeneficiaryCols \o indicators, dropped),
          <<[desynpuf_id |-> 1, bronze_load_timestamp |-> 1, bronze_load_date |-> DayBase + 1,
             flags |-> flags]>>)

\* every content of a few indicator columns; all eleven with every one
\* present, or the first two of them; with or without bene_race_cd
BronzeIndicators ==
    {FlagFrame(ind, fl, dr) :
        <<ind, fl, dr>> \in UNION {{<<i, f, d>> : f \in [Range(i) -> FlagCells],
                                                 d \in {{}, {"bene_race_cd"}}} : i \in FewIndicators}}
    \cup {FlagFrame(chronic_cols, [c \in Range(chronic_cols) |-> Str("1")], {}),
          FlagFrame(chronic_cols,
                    [c \in Range(chronic_cols) |-> IF c \in {"sp_alzhdmta", "sp_chf"} THEN Str("1") ELSE Str("2")],
                    {})}

\* what clm_pmt_amt of a bronze row may hold
PayCells == {NullOf("double"), Num("double", 0), Num("double", HighCost),
             Num("double", HighCost + 1), Num("double", 15000)}

\* a bronze claim table of the base schema with the given payments, row by row
PayFrame(table, pays) ==
    Frame(BaseSchema(table),
          [i \in DOMAIN pays |->
              [j \in DOMAIN BaseSchema(table) |->
                  IF BaseSchema(table)[j] = "clm_pmt_amt" THEN pays[i]
                  ELSE SampleCell(table, BaseSchema(table)[j])]])

\* a claim table with up to n rows and every payment in each
BronzePayments(table, n) ==
    {None} \cup UNION {{PayFrame(table, pays) : pays \in [1..k -> PayCells]} : k \in 0..n}

\* what clm_from_dt and clm_thru_dt of a bronze row may hold: day codes
\* around a year end and a leap day, a code that is no date, NULL
DateCells == {NullOf("int"), Num("int", 20071231), Num("int", 20080101), Num("int", 20080105),
              Num("int", 20080229), Num("int", 20080301), Num("int", 20081301)}

\* a one-row bronze claim table of the base schema with the given dates
DateFrame(table, from, thru) ==
    Frame(BaseSchema(table),
          <<[j \in DOMAIN BaseSchema(table) |->
                IF BaseSchema(table)[j] = "clm_from_dt" THEN from
                ELSE IF BaseSchema(table)[j] = "clm_thru_dt" THEN thru
                ELSE SampleCell(table, BaseSchema(table)[j])]>>)

BronzeDates(table) == {None} \cup {DateFrame(table, f, t) : f \in DateCells, t \in DateCells}

\* what days_suply_num and tot_rx_cst_amt of a bronze row may hold
DaysCells == {NullOf("double"), Num("double", 0 - 1), Num("double", 0), Frac("double", 1, 2),
              Num("double", 1), Num("double", 30)}

CostCells == {NullOf("double"), Num("double", 0 - 5), Num("double", 0), Frac("double", 1, 2),
              Num("double", 300)}

RxRow(schema, days, cost) ==
    [j \in DOMAIN schema |->
        IF schema[j] = "days_suply_num" THEN days
        ELSE IF schema[j] = "tot_rx_cst_amt" THEN cost
        ELSE SampleCell("prescription", schema[j])]

\* the prescription tables of two events: one with every days supply and
\* cost, one with a cost of 300 and a days supply of 0; with or without the
\* ptnt_pay_amt column
BronzePrescriptions ==
    {None, Frame(PrescriptionCols, <<>>)} \cup
    {Frame(Without(PrescriptionCols, dropped),
           <<RxRow(Without(PrescriptionCols, dropped), days, cost),
             RxRow(Without(PrescriptionCols, dropped), Num("double", 0), Num("double", 300))>>) :
        days \in DaysCells, cost \in CostCells, dropped \in {{}, {"ptnt_pay_amt"}}}

\* what a diagnosis slot of a bronze row may hold
DiagCells == {NullOf("string"), Str(""), Str("25000")}

\* the diagnosis slot columns of an inpatient table, in its schema order
SlotArrangements == {<<>>, <<"icd9_dgns_cd_1">>, <<"icd9_dgns_cd_1", "icd9_dgns_cd_2">>,
                     <<"icd9_dgns_cd_2", "icd9_dgns_cd_1">>}

InpatientIdCols == <<"desynpuf_id", "clm_id", "clm_from_dt", "clm_thru_dt", "clm_pmt_amt">>

\* row i of an inpatient table: its own claim id, the given slot cells
InpatientRow(schema, slots, i, cells) ==
    [j \in DOMAIN schema |->
        IF schema[j] = "clm_id" THEN Str(IF i = 1 THEN "C1" ELSE IF i = 2 THEN "C2" ELSE "C3")
        ELSE IF IsDiagCol(schema[j]) THEN cells[Idx(slots, schema[j])]
        ELSE SampleCell("inpatient", schema[j])]

\* the inpatient tables with every arrangement of the slot columns, every
\* content of the slots, up to MaxClaimRows rows, with or without clm_id
BronzeInpatient ==
    {Frame(Without(InpatientIdCols \o slots, dropped),
           [i \in 1..n |-> InpatientRow(Without(InpatientIdCols \o slots, dropped), slots, i, cells[i])]) :
        <<slots, dropped, n, cells>> \in
            UNION {UNION {{<<sl, dr, k, c>> : c \in [1..k -> [DOMAIN sl -> DiagCells]],
                                              dr \in {{}, {"clm_id"}}} :
                          k \in 0..MaxClaimRows} : sl \in SlotArrangements}}

\* the catalogs a whole run is explored from: every table missing or holding
\* a sample, inpatient also without diagnosis slots, outpatient also without
\* the load timestamp
RunBronze ==
    {[t \in Tables |->
        IF t = "beneficiary" THEN b ELSE IF t = "inpatient" THEN i
        ELSE IF t = "outpatient" THEN o ELSE IF t = "carrier" THEN c ELSE p] :
        b \in {None, Frame(BeneficiaryCols, <<Snap(1, 1, 1), Snap(1, 2, 2)>>)},
        i \in {None, SampleFrame("inpatient", BaseSchema("inpatient"), 1),
               SampleFrame("inpatient", Without(BaseSchema("inpatient"), Range(DiagSlotNames)), 1)},
        o \in {None, SampleFrame("outpatient", BaseSchema("outpatient"), 1),
               SampleFrame("outpatient", Without(BaseSchema("outpatient"), {"bronze_load_timestamp"}), 1)},
        c \in {None, SampleFrame("carrier", BaseSchema("carrier"), 1)},
        p \in {None, SampleFrame("prescription", PrescriptionCols, 1)}}

\* ------------------------------------------------------------------ actions
\* load_bronze_table (47-59), called five times (62-66): a table that cannot
\* be loaded gives None
load_bronze_table(table_name) == bronze[table_name]

LoadBronzeTables ==
    /\ pc = "load"
    /\ beneficiary_df' = load_bronze_table("beneficiary")
    /\ inpatient_df' = load_bronze_table("inpatient")
    /\ outpatient_df' = load_bronze_table("outpatient")
    /\ carrier_df' = load_bronze_table("carrier")
    /\ prescription_df' = load_bronze_table("prescription")
    /\ log' = log \cup {<<IF bronze[t].isNone THEN "could_not_load" ELSE "loaded", t>> : t \in Tables}
    /\ pc' = "beneficiary"
    /\ UNCHANGED <<run, faults, bronze, cleans, results, s3, ghosts, validator>>

\* lines 71-141
BeneficiaryBranch ==
    /\ pc = "beneficiary"
    /\ IF beneficiary_df.isNone
       THEN /\ beneficiary_scd' = None
            /\ pc' = "clean"
            /\ NoWrite
            /\ UNCHANGED <<log, faults>>
       ELSE \E fail \in FaultChoices({"transform", "write", "count"}) :
            \E ord \in WindowOrders(beneficiary_df.rows) :
               LET transform_raises == BeneficiaryRaises(beneficiary_df)
                   before == fail \in {"transform", "write"} \/ transform_raises
                   out == IF transform_raises THEN None ELSE BuildScd(beneficiary_df, ord)
               IN  /\ Spend(fail)
                   /\ pc' = AfterBranch("clean", before \/ fail = "count")
                   /\ beneficiary_scd' = ResultAfter(out, before \/ fail = "count")
                   /\ WriteThenCount("beneficiary_clean", out, before, fail = "count")
    /\ UNCHANGED <<run, bronze, sources, cleans, claims_unified, prescription_clean,
                   diagnosis_normalized, prev_scd, validator>>

\* lines 181-184
CleanClaims ==
    /\ pc = "clean"
    /\ inpatient_clean' = clean_claims_data(inpatient_df, "inpatient")
    /\ outpatient_clean' = clean_claims_data(outpatient_df, "outpatient")
    /\ carrier_clean' = clean_claims_data(carrier_df, "carrier")
    /\ log' = log \cup {<<"error_cleaning", t>> :
                          t \in {t \in {"inpatient", "outpatient", "carrier"} :
                                    ~bronze[t].isNone /\ CleanRaises(bronze[t])}}
    /\ pc' = "unify"
    /\ UNCHANGED <<run, faults, bronze, sources, results, s3, ghosts, validator>>

\* no check of claims_dfs: claims_dfs[0] raises IndexError inside the try block
NoClaimsRaises ==
    /\ claims_unified' = None
    /\ pc' = "prescription"
    /\ log' = log \cup {<<"error", "claims_unified">>}
    /\ raised' = raised \cup {"claims_unified"}
    /\ UNCHANGED <<s3, last_out, wrote, faults>>

\* lines 244-245: claims_dfs is empty
NoClaimsAvailable ==
    /\ claims_unified' = None
    /\ pc' = "prescription"
    /\ log' = log \cup {<<"warning", "no_claims">>}
    /\ NoWrite
    /\ UNCHANGED faults

\* lines 189-249
UnifyBranch ==
    /\ pc = "unify"
    /\ LET claims_dfs == ClaimsDfs(inpatient_clean, outpatient_clean, carrier_clean)
       IN  IF claims_dfs = <<>>
           THEN NoClaimsAvailable
           ELSE \E fail \in FaultChoices({"subset_count", "write", "count"}) :
                   LET union_raises == UnionAllRaises(claims_dfs)
                       before == fail \in {"subset_count", "write"} \/ union_raises
                       out == IF union_raises THEN None ELSE AddHighCost(UnionAll(claims_dfs))
                   IN  /\ Spend(fail)
                       /\ pc' = AfterBranch("prescription", before \/ fail = "count")
                       /\ claims_unified' = ResultAfter(out, before \/ fail = "count")
                       /\ WriteThenCount("claims_unified", out, before, fail = "count")
    /\ UNCHANGED <<run, bronze, sources, cleans, beneficiary_scd, prescription_clean,
                   diagnosis_normalized, prev_scd, validator>>

\* lines 254-288
PrescriptionBranch ==
    /\ pc = "prescription"
    /\ IF prescription_df.isNone
       THEN /\ prescription_clean' = None
            /\ pc' = "diagnosis"
            /\ NoWrite
            /\ UNCHANGED <<log, faults>>
       ELSE \E fail \in FaultChoices({"write", "count"}) :
               LET transform_raises == PrescriptionRaises(prescription_df)
                   before == fail = "write" \/ transform_raises
                   out == IF transform_raises THEN None ELSE PrescriptionClean(prescription_df)
               IN  /\ Spend(fail)
                   /\ pc' = AfterBranch("diagnosis", before \/ fail = "count")
                   /\ prescription_clean' = ResultAfter(out, before \/ fail = "count")
                   /\ WriteThenCount("prescriptions_clean", out, before, fail = "count")
    /\ UNCHANGED <<run, bronze, sources, cleans, beneficiary_scd, claims_unified,
                   diagnosis_normalized, prev_scd, validator>>

\* lines 293-339
DiagnosisBranch ==
    /\ pc = "diagnosis"
    /\ IF inpatient_clean.isNone
       THEN /\ diagnosis_normalized' = None
            /\ pc' = "catalog"
            /\ NoWrite
            /\ UNCHANGED <<log, faults>>
       ELSE IF DiagnosisCols(inpatient_clean) = <<>>
       THEN /\ diagnosis_normalized' = None
            /\ pc' = "catalog"
            /\ log' = log \cup {<<"warning", "no_diagnosis_columns">>}
            /\ NoWrite
            /\ UNCHANGED faults
       ELSE \E fail \in FaultChoices({"write", "count"}) :
               LET select_raises == DiagnosisRaises(inpatient_clean)
                   before == fail = "write" \/ select_raises
                   out == IF select_raises THEN None ELSE UnionAll(DiagnosisRecords(inpatient_clean))
               IN  /\ Spend(fail)
                   /\ pc' = AfterBranch("catalog", before \/ fail = "count")
                   /\ diagnosis_normalized' = ResultAfter(out, before \/ fail = "count")
                   /\ WriteThenCount("diagnosis_normalized", out, before, fail = "count")
    /\ UNCHANGED <<run, bronze, sources, cleans, beneficiary_scd, claims_unified,
                   prescription_clean, prev_scd, validator>>

\* no try block around spark.sql: its exception ends the script
AfterCatalogUncaught(exception) == IF exception THEN "crashed" ELSE "summary"

\* try: spark.sql(...) except Exception: print a note; the summary follows
AfterCatalog(exception) == "summary"

\* lines 344-350
CatalogSilver ==
    /\ pc = "catalog"
    /\ \E fail \in FaultChoices({"sql"}) :
          /\ Spend(fail)
          /\ pc' = AfterCatalog(fail # "none")
          /\ log' = log \cup {<<IF fail = "none" THEN "ok" ELSE "warning", "cms_silver">>}
    /\ UNCHANGED <<run, bronze, sources, cleans, results, s3, ghosts, validator>>

\* lines 355-365: the counts of the summary are outside any try block
SummaryAndCommit ==
    /\ pc = "summary"
    /\ \E fail \in FaultChoices(IF \A k \in DOMAIN results : results[k].isNone THEN {} ELSE {"count"}) :
          /\ Spend(fail)
          /\ pc' = IF fail = "none" THEN "done" ELSE "crashed"
          /\ log' = log \cup {IF fail = "none" THEN <<"ok", "commit">> ELSE <<"uncaught", "summary">>}
    /\ UNCHANGED <<run, bronze, sources, cleans, results, s3, ghosts, validator>>

\* the job is started again over the catalog b: a new process, the silver
\* locations as the earlier runs left them
Restart(b) ==
    /\ pc \in {"done", "crashed"}
    /\ run < MaxRuns
    /\ run' = run + 1
    /\ pc' = "load"
    /\ bronze' = b
    /\ beneficiary_df' = None /\ inpatient_df' = None /\ outpatient_df' = None
    /\ carrier_df' = None /\ prescription_df' = None
    /\ inpatient_clean' = None /\ outpatient_clean' = None /\ carrier_clean' = None
    /\ beneficiary_scd' = None /\ claims_unified' = None
    /\ prescription_clean' = None /\ diagnosis_normalized' = None
    /\ log' = {}
    /\ raised' = {}
    /\ wrote' = {}
    /\ prev_scd' = IF beneficiary_scd.isNone THEN prev_scd
                   ELSE [input |-> beneficiary_df, out |-> beneficiary_scd]
    /\ UNCHANGED <<faults, s3, last_out, validator>>

\* a rerun over the same bronze tables
StartNextRun == Restart(bronze)

\* a run after one bronze table was loaded anew, or dropped
IngestBronze ==
    \E b \in RunBronze :
       /\ Cardinality({t \in Tables : b[t] # bronze[t]}) = 1
       /\ Restart(b)

\* ------------------------------------- validator (data-validator.py 50-280)
\* an object under the prefix: whether its key ends with '.csv', and what
\* validate_file_streaming meets in it
FileKinds == {[readable |-> TRUE, missing_columns |-> FALSE, few_rows |-> FALSE, null_ids |-> FALSE],
              [readable |-> TRUE, missing_columns |-> TRUE, few_rows |-> FALSE, null_ids |-> FALSE],
              [readable |-> TRUE, missing_columns |-> FALSE, few_rows |-> TRUE, null_ids |-> FALSE],
              [readable |-> TRUE, missing_columns |-> FALSE, few_rows |-> FALSE, null_ids |-> TRUE],
              [readable |-> TRUE, missing_columns |-> TRUE, few_rows |-> TRUE, null_ids |-> FALSE],
              [readable |-> FALSE, missing_columns |-> FALSE, few_rows |-> FALSE, null_ids |-> FALSE]}

CleanFile == [readable |-> TRUE, missing_columns |-> FALSE, few_rows |-> FALSE, null_ids |-> FALSE]

Objects == {[csv |-> TRUE, file |-> k] : k \in FileKinds} \cup {[csv |-> FALSE, file |-> CleanFile]}

\* what list_objects_v2 answers: it raises, or the objects under the prefix
\* (no 'Contents' key when there is none)
Listings == {[raises |-> TRUE, contents |-> <<>>]} \cup
            {[raises |-> FALSE, contents |-> c] : c \in UNION {[1..n -> Objects] : n \in 0..MaxObjects}}

NoResponse == [statusCode |-> 0, validation_status |-> "NONE"]

\* lines 119-124
ErrorResponse == [statusCode |-> 500, validation_status |-> "ERROR"]

ValidatorAt(p, e, l) ==
    /\ v_pc = p
    /\ event = e
    /\ listing = l
    /\ csv_files = <<>>
    /\ validation_results = <<>>
    /\ response = NoResponse
    /\ notification = "none"

\* validate_file_streaming (127-241): the errors it collects, or the one
\* error of its except block when reading the file raises
validate_file_streaming(file) ==
    LET errors == IF ~file.readable THEN <<"exception">>
                  ELSE (IF file.missing_columns THEN <<"missing_columns">> ELSE <<>>)
                       \o (IF file.few_rows THEN <<"insufficient_rows">> ELSE <<>>)
                       \o (IF file.null_ids THEN <<"null_values">> ELSE <<>>)
    IN  [valid |-> Len(errors) = 0, errors |-> errors]

\* lines 62-82: event.get on an event that is no mapping raises, so does the
\* listing call, and so do the two checks; the except block of lines 116-124
\* answers every exception
ListCsvFiles ==
    /\ v_pc = "invoked"
    /\ LET keys == SelectSeq(listing.contents, LAMBDA o : o.csv)
       IN  IF ~event \/ listing.raises \/ listing.contents = <<>> \/ keys = <<>>
           THEN /\ response' = ErrorResponse
                /\ v_pc' = "returned"
                /\ UNCHANGED csv_files
           ELSE /\ csv_files' = keys
                /\ v_pc' = "validating"
                /\ UNCHANGED response
    /\ UNCHANGED <<event, listing, validation_results, notification, etl>>

\* lines 87-96: one iteration of the loop over csv_files
ValidateNextFile ==
    /\ v_pc = "validating"
    /\ Len(validation_results) < Len(csv_files)
    /\ validation_results' =
          Append(validation_results, validate_file_streaming(csv_files[Len(validation_results) + 1].file))
    /\ UNCHANGED <<v_pc, event, listing, csv_files, response, notification, etl>>

\* lines 101-108
ResponsePayload(all_valid) ==
    [statusCode |-> IF all_valid THEN 200 ELSE 400,
     validation_status |-> IF all_valid THEN "PASSED" ELSE "FAILED"]

\* no try block in send_failure_notification: the exception of publish
\* reaches the except block of lambda_handler
AfterNotificationUncaught(payload, publish_raises) == IF publish_raises THEN ErrorResponse ELSE payload

\* send_failure_notification (244-280) catches what publish raises
AfterNotification(payload, publish_raises) == payload

\* lines 99-114
Respond ==
    /\ v_pc = "validating"
    /\ Len(validation_results) = Len(csv_files)
    /\ LET all_valid == \A k \in DOMAIN validation_results : validation_results[k].valid
       IN  IF all_valid
           THEN /\ response' = ResponsePayload(all_valid)
                /\ UNCHANGED notification
           ELSE \E publish_raises \in BOOLEAN :
                   /\ notification' = IF publish_raises THEN "failed" ELSE "sent"
                   /\ response' = AfterNotification(ResponsePayload(all_valid), publish_raises)
    /\ v_pc' = "returned"
    /\ UNCHANGED <<event, listing, csv_files, validation_results, etl>>

ValidatorStep == ListCsvFiles \/ ValidateNextFile \/ Respond

\* ------------------------------------------------------------ specifications
\* the job is started over the catalog b with f faults to come
EtlAt(b, f) ==
    /\ pc = "load"
    /\ run = 1
    /\ faults = f
    /\ bronze = b
    /\ beneficiary_df = None /\ inpatient_df = None /\ outpatient_df = None
    /\ carrier_df = None /\ prescription_df = None
    /\ inpatient_clean = None /\ outpatient_clean = None /\ carrier_clean = None
    /\ beneficiary_scd = None /\ claims_unified = None
    /\ prescription_clean = None /\ diagnosis_normalized = None
    /\ s3 = [d \in Datasets |-> <<>>]
    /\ log = {}
    /\ raised = {}
    /\ wrote = {}
    /\ last_out = [d \in Datasets |-> [run |-> 0, frame |-> None]]
    /\ prev_scd = [input |-> None, out |-> None]

InitWith(b, f) == EtlAt(b, f) /\ ValidatorAt("idle", TRUE, [raises |-> FALSE, contents |-> <<>>])

\* the statements of the script, in the order they are written
ScriptStep ==
    \/ LoadBronzeTables
    \/ BeneficiaryBranch
    \/ CleanClaims
    \/ UnifyBranch
    \/ PrescriptionBranch
    \/ DiagnosisBranch
    \/ CatalogSilver
    \/ SummaryAndCommit

RunStep == ScriptStep \/ StartNextRun

\* whole runs over small catalogs, with failing writes and counts
Init == \E b \in RunBronze : InitWith(b, MaxFaults)

Next == RunStep \/ IngestBronze

Spec == Init /\ [][Next]_vars

\* every combination of available and unavailable bronze tables
SourceCombinations ==
    {[t \in Tables |->
        IF t \in avail
        THEN (IF t = "beneficiary" THEN Frame(BeneficiaryCols, <<Snap(1, 1, 1), Snap(1, 2, 2)>>)
              ELSE IF t = "prescription" THEN SampleFrame(t, PrescriptionCols, 1)
              ELSE SampleFrame(t, BaseSchema(t), 1))
        ELSE None] : avail \in SUBSET Tables}

InitLive == \E b \in SourceCombinations : InitWith(b, MaxFaults)

\* the section written after section p
Following(p) ==
    IF p = "load" THEN "beneficiary" ELSE IF p = "beneficiary" THEN "clean"
    ELSE IF p = "clean" THEN "unify" ELSE IF p = "unify" THEN "prescription"
    ELSE IF p = "prescription" THEN "diagnosis" ELSE IF p = "diagnosis" THEN "catalog"
    ELSE IF p = "catalog" THEN "summary" ELSE "done"

\* the interpreter executes the section it stands at: control moves to the
\* section that follows, or the script ends on an uncaught exception
ExecuteSection ==
    /\ pc \notin {"done", "crashed"}
    /\ pc' \in {Following(pc), "crashed"}

\* a started script runs its sections one after the other until it ends;
\* whether the harness starts the job again is left open
SpecLive == InitLive /\ [][RunStep]_vars /\ WF_pc(ExecuteSection)

\* the beneficiary history builder over every bag of snapshots
InitScd == \E f \in BronzeBeneficiary(MaxSnapshots) :
              InitWith([NoTables EXCEPT !["beneficiary"] = f], 0)

SpecScd == InitScd /\ [][RunStep]_vars

\* the claims cleanser and unifier over every combination of claim tables
InitUnify == \E i \in BronzeClaims("inpatient") : \E o \in BronzeClaims("outpatient") :
             \E c \in BronzeClaims("carrier") :
                InitWith([NoTables EXCEPT !["inpatient"] = i, !["outpatient"] = o, !["carrier"] = c], 0)

SpecUnify == InitUnify /\ [][RunStep]_vars

\* the claims unifier over every payment of the inpatient and outpatient
\* claims, carrier claims having no payment column
InitPay == \E i \in BronzePayments("inpatient", MaxClaimRows) :
           \E o \in BronzePayments("outpatient", 1) :
           \E c \in {None, SampleFrame("carrier", BaseSchema("carrier"), 1)} :
              InitWith([NoTables EXCEPT !["inpatient"] = i, !["outpatient"] = o, !["carrier"] = c], 0)

SpecPay == InitPay /\ [][RunStep]_vars

\* the claims cleanser over every pair of from and thru dates of an inpatient
\* claim, and outpatient claims that end before or after they start
InitDates == \E i \in BronzeDates("inpatient") :
             \E o \in {None} \cup {DateFrame("outpatient", Num("int", 20080301), t) : t \in DateCells} :
             \E c \in {None, SampleFrame("carrier", BaseSchema("carrier"), 1)} :
                InitWith([NoTables EXCEPT !["inpatient"] = i, !["outpatient"] = o, !["carrier"] = c], 0)

SpecDates == InitDates /\ [][RunStep]_vars

\* the chronic condition count over every content of the indicator columns
InitChronic == \E f \in BronzeIndicators : InitWith([NoTables EXCEPT !["beneficiary"] = f], 0)

SpecChronic == InitChronic /\ [][RunStep]_vars

\* the prescription cleanser over every days supply and cost
InitRx == \E p \in BronzePrescriptions : InitWith([NoTables EXCEPT !["prescription"] = p], 0)

SpecRx == InitRx /\ [][RunStep]_vars

\* one invocation of the validator over every listing of the prefix
InitValidator ==
    \E e \in BOOLEAN : \E l \in Listings :
       /\ EtlAt(NoTables, 0)
       /\ ValidatorAt("invoked", e, l)

SpecValidator == InitValidator /\ [][ValidatorStep]_vars

\* the diagnosis unpivoter over every inpatient table
InitDiag == \E i \in BronzeInpatient : InitWith([NoTables EXCEPT !["inpatient"] = i], 0)

SpecDiag == InitDiag /\ [][RunStep]_vars

\* =================================================================== claims
\* the versions of one beneficiary id in a history frame
VersionsOf(scd, id) == {i \in DOMAIN scd.rows : scd.rows[i].desynpuf_id = id}

IdsIn(scd) == {scd.rows[i].desynpuf_id : i \in DOMAIN scd.rows}

\* the history of this run is built, from the snapshots in beneficiary_df
HistoryBuilt == ~beneficiary_scd.isNone /\ ~beneficiary_df.isNone

\* C1: every beneficiary id with at least one snapshot has exactly one version
\* with is_current = true, and that version is built from a snapshot whose
\* load_timestamp is the last (no snapshot of the id has a later one).
C1_OneCurrentAndLast ==
    HistoryBuilt =>
        \A id \in IdsIn(beneficiary_scd) :
            LET current == {i \in VersionsOf(beneficiary_scd, id) : beneficiary_scd.rows[i].is_current}
            IN  /\ Cardinality(current) = 1
                /\ \A i \in current : \A j \in VersionsOf(beneficiary_scd, id) :
                      beneficiary_df.rows[j].bronze_load_timestamp
                          <= beneficiary_df.rows[i].bronze_load_timestamp

C1_Witness ==
    /\ HistoryBuilt
    /\ \E i \in DOMAIN beneficiary_scd.rows : \E j \in DOMAIN beneficiary_scd.rows :
          /\ beneficiary_df.rows[i].desynpuf_id = beneficiary_df.rows[j].desynpuf_id
          /\ beneficiary_df.rows[i].bronze_load_timestamp < beneficiary_df.rows[j].bronze_load_timestamp
          /\ beneficiary_scd.rows[j].is_current
          /\ ~beneficiary_scd.rows[i].is_current

\* two versions share a date of their half-open intervals [start, end)
Overlap(v, w) ==
    /\ v.effective_start_date < v.effective_end_date
    /\ w.effective_start_date < w.effective_end_date
    /\ v.effective_start_date < w.effective_end_date
    /\ w.effective_start_date < v.effective_end_date

NoOverlapFor(scd, id) ==
    \A i \in VersionsOf(scd, id) : \A j \in VersionsOf(scd, id) :
        i # j => ~Overlap(scd.rows[i], scd.rows[j])

\* the load dates of an id never go back as its load timestamps go on
DatesFollowTimestamps(df, id) ==
    \A i \in VersionsOf(df, id) : \A j \in VersionsOf(df, id) :
        df.rows[i].bronze_load_timestamp <= df.rows[j].bronze_load_timestamp
            => df.rows[i].bronze_load_date <= df.rows[j].bronze_load_date

\* C2 as stated: for any combination of load_timestamp and load_date values,
\* no two distinct versions of one beneficiary overlap.
C2_NoOverlapAnyInput ==
    HistoryBuilt => \A id \in IdsIn(beneficiary_scd) : NoOverlapFor(beneficiary_scd, id)

\* C2 amended: no two distinct versions of one beneficiary overlap, provided
\* the load dates of its snapshots are non-decreasing in load_timestamp
\* (snapshots with the same load_timestamp have the same load_date).
C2_NoOverlapWhenDatesFollow ==
    HistoryBuilt =>
        \A id \in IdsIn(beneficiary_scd) :
            DatesFollowTimestamps(beneficiary_df, id) => NoOverlapFor(beneficiary_scd, id)

C2_Witness ==
    /\ HistoryBuilt
    /\ \E id \in IdsIn(beneficiary_scd) :
          /\ DatesFollowTimestamps(beneficiary_df, id)
          /\ Cardinality(VersionsOf(beneficiary_scd, id)) >= 3
          /\ Cardinality({beneficiary_df.rows[i].bronze_load_date :
                             i \in VersionsOf(beneficiary_scd, id)}) >= 2

\* the snapshots of an id have distinct timestamps, and dates strictly
\* increasing with them: d1 < ... < dn in load_timestamp order
StrictHistory(df, id) ==
    \A i \in VersionsOf(df, id) : \A j \in VersionsOf(df, id) :
        i # j => \/ /\ df.rows[i].bronze_load_timestamp < df.rows[j].bronze_load_timestamp
                    /\ df.rows[i].bronze_load_date < df.rows[j].bronze_load_date
                 \/ /\ df.rows[j].bronze_load_timestamp < df.rows[i].bronze_load_timestamp
                    /\ df.rows[j].bronze_load_date < df.rows[i].bronze_load_date

\* the snapshots of the same id loaded after snapshot i
After(df, i) ==
    {j \in VersionsOf(df, df.rows[i].desynpuf_id) :
        df.rows[i].bronze_load_timestamp < df.rows[j].bronze_load_timestamp}

\* the load date of the first snapshot loaded after snapshot i
NextDate(df, i) ==
    LET nxt == CHOOSE j \in After(df, i) :
                  \A k \in After(df, i) : df.rows[j].bronze_load_timestamp <= df.rows[k].bronze_load_timestamp
    IN  df.rows[nxt].bronze_load_date

\* C3: one version per snapshot; for an id whose snapshots in load_timestamp
\* order have load dates d1 < ... < dn, version k starts at dk, ends at d(k+1)
\* and is not current for k < n, and version n ends at the sentinel 9999-12-31
\* and is current.
C3_VersionPerSnapshot ==
    HistoryBuilt =>
        /\ Len(beneficiary_scd.rows) = Len(beneficiary_df.rows)
        /\ \A i \in DOMAIN beneficiary_df.rows :
              LET snap == beneficiary_df.rows[i]
                  v == beneficiary_scd.rows[i]
              IN  /\ v.desynpuf_id = snap.desynpuf_id
                  /\ StrictHistory(beneficiary_df, snap.desynpuf_id) =>
                        /\ v.effective_start_date = snap.bronze_load_date
                        /\ IF After(beneficiary_df, i) = {}
                           THEN v.effective_end_date = Sentinel /\ v.is_current
                           ELSE v.effective_end_date = NextDate(beneficiary_df, i) /\ ~v.is_current

C3_Witness ==
    /\ HistoryBuilt
    /\ \E id \in IdsIn(beneficiary_scd) :
          /\ StrictHistory(beneficiary_df, id)
          /\ Cardinality(VersionsOf(beneficiary_scd, id)) = 3
          /\ \E i \in VersionsOf(beneficiary_scd, id) :
                beneficiary_scd.rows[i].effective_end_date = Sentinel

\* how many times x occurs in a sequence
Occurrences(seq, x) == Cardinality({i \in DOMAIN seq : seq[i] = x})

SameBag(a, b) == \A x \in Range(a) \cup Range(b) : Occurrences(a, x) = Occurrences(b, x)

\* C4: two runs over the same snapshots produce the same versions, also when
\* two snapshots of one beneficiary carry the same load_timestamp.
C4_Deterministic ==
    (HistoryBuilt /\ ~prev_scd.out.isNone /\ prev_scd.input = beneficiary_df)
        => SameBag(prev_scd.out.rows, beneficiary_scd.rows)

\* the run is over: job.commit() was reached, or the script ended before it
EndOfRun == pc \in {"done", "crashed"}

\* the result variable of the section that writes a dataset
ResultOf(dataset) ==
    IF dataset = "beneficiary_clean" THEN beneficiary_scd
    ELSE IF dataset = "claims_unified" THEN claims_unified
    ELSE IF dataset = "prescriptions_clean" THEN prescription_clean
    ELSE diagnosis_normalized

AvailableSubsets == ClaimsDfs(inpatient_clean, outpatient_clean, carrier_clean)

\* the section that writes a dataset has something of its own to work on
HasSource(dataset) ==
    IF dataset = "beneficiary_clean" THEN ~beneficiary_df.isNone
    ELSE IF dataset = "claims_unified" THEN AvailableSubsets # <<>>
    ELSE IF dataset = "prescriptions_clean" THEN ~prescription_df.isNone
    ELSE ~inpatient_clean.isNone /\ DiagnosisCols(inpatient_clean) # <<>>

WrittenThisRun(dataset) == \E k \in DOMAIN s3[dataset] : s3[dataset][k].run = run

\* C5: a failure raised inside a branch leaves that branch's result None, and
\* at the end of the run every branch that has its own source and did not
\* fail itself has written its output and kept its result, whatever failed
\* in the other branches.
C5_BranchesIsolated ==
    /\ \A d \in raised : ResultOf(d).isNone
    /\ EndOfRun =>
          \A d \in Datasets :
              (HasSource(d) /\ d \notin raised) => (d \in wrote /\ ~ResultOf(d).isNone)

C5_Witness ==
    /\ pc = "done"
    /\ "beneficiary_clean" \in raised
    /\ beneficiary_scd.isNone
    /\ {"claims_unified", "prescriptions_clean", "diagnosis_normalized"} \subseteq wrote \ raised
    /\ \A d \in {"claims_unified", "prescriptions_clean", "diagnosis_normalized"} : WrittenThisRun(d)

\* C6: once the beneficiary section is over, if the beneficiary source was
\* absent or the section raised at any point, no beneficiary version of this
\* run is stored at the beneficiary_clean location and the result is None.
C6_FailedHistoryStoresNothing ==
    (pc \notin {"load", "beneficiary"} /\ (beneficiary_df.isNone \/ "beneficiary_clean" \in raised))
        => (beneficiary_scd.isNone /\ ~WrittenThisRun("beneficiary_clean"))

\* the unify section is over
Unified == pc \notin {"load", "beneficiary", "clean", "unify"}

RECURSIVE ConcatRows(_)
ConcatRows(dfs) == IF dfs = <<>> THEN <<>> ELSE dfs[1].rows \o ConcatRows(Tail(dfs))

\* a unified row without the is_high_cost cell that was appended to it
WithoutLast(row) == SubSeq(row, 1, Len(row) - 1)

\* C7: when at least one claim type is cleansed (and no write or count
\* fails), the unified claims output is produced and holds the rows of every
\* available type, each as often as in its source, in the order inpatient,
\* outpatient, carrier, and nothing else; the section does not raise.
C7_AllRowsOfAvailableTypes ==
    (Unified /\ AvailableSubsets # <<>>) =>
        /\ "claims_unified" \notin raised
        /\ ~claims_unified.isNone
        /\ [i \in DOMAIN claims_unified.rows |-> WithoutLast(claims_unified.rows[i])]
               = ConcatRows(AvailableSubsets)

RECURSIVE RowsBefore(_, _)
RowsBefore(dfs, k) == IF k = 1 THEN 0 ELSE RowsBefore(dfs, k - 1) + Len(dfs[k - 1].rows)

\* C8: when the available claim types have different subsets of the common
\* columns, the unified output is still produced with the rows of all
\* available types, and every value of a row is found under the column it
\* had in its own type.
C8_ValuesUnderOwnColumn ==
    (Unified /\ AvailableSubsets # <<>>) =>
        /\ ~claims_unified.isNone
        /\ Len(claims_unified.rows) = Len(ConcatRows(AvailableSubsets))
        /\ \A k \in DOMAIN AvailableSubsets :
              LET sub == AvailableSubsets[k]
              IN  \A j \in DOMAIN sub.rows : \A c \in Range(sub.cols) :
                     /\ Has(claims_unified, c)
                     /\ Col(claims_unified, claims_unified.rows[RowsBefore(AvailableSubsets, k) + j], c)
                            = Col(sub, sub.rows[j], c)

\* C9: when no claim type has a cleansed output, the unify section leaves
\* claims_unified None, prints the warning, raises and logs no error, writes
\* nothing to the claims_unified location, and the run goes on.
C9_NoClaimsIsAWarning ==
    (Unified /\ AvailableSubsets = <<>>) =>
        /\ claims_unified.isNone
        /\ <<"warning", "no_claims">> \in log
        /\ <<"error", "claims_unified">> \notin log
        /\ "claims_unified" \notin raised
        /\ "claims_unified" \notin wrote
        /\ ~WrittenThisRun("claims_unified")

C9_Witness ==
    /\ pc = "done"
    /\ AvailableSubsets = <<>>
    /\ <<"warning", "no_claims">> \in log
    /\ "prescriptions_clean" \in wrote

\* the rows of a frame as run r stores them
StoredAs(frame, r) == [i \in DOMAIN frame.rows |-> [run |-> r, row |-> frame.rows[i]]]

Rank(p) ==
    IF p = "load" THEN 1 ELSE IF p = "beneficiary" THEN 2 ELSE IF p = "clean" THEN 3
    ELSE IF p = "unify" THEN 4 ELSE IF p = "prescription" THEN 5 ELSE IF p = "diagnosis" THEN 6
    ELSE IF p = "catalog" THEN 7 ELSE IF p = "summary" THEN 8 ELSE 9

\* a count() of the summary (lines 358-361) raised
SummaryCountRaised == <<"uncaught", "summary">> \in log

\* C11: for every combination of unavailable sources, failures inside the
\* branches and failure of CREATE DATABASE, a started run goes through its
\* sections in order, each attempted at most once, no exception ends the
\* script before the summary, and job.commit() is reached; the only way past
\* these combinations is a count() raising in the summary itself.
C11_RunReachesCommit ==
    /\ [][run' = run => Rank(pc') > Rank(pc)]_vars
    /\ [](pc = "crashed" => SummaryCountRaised)
    /\ [](pc = "load" => <>(pc = "done" \/ SummaryCountRaised))

C11_Witness ==
    /\ pc = "done"
    /\ <<"ok", "commit">> \in log
    /\ <<"warning", "cms_silver">> \in log
    /\ raised # {}
    /\ \E t \in Tables : bronze[t].isNone
    /\ \E d \in Datasets : d \in wrote \ raised

\* the diagnosis section is over
Unpivoted == pc \in {"catalog", "summary", "done", "crashed"}

\* slot k of claim row i holds a code
SlotFilled(clean, i, k) ==
    LET cell == Col(clean, clean.rows[i], DiagnosisCols(clean)[k])
    IN  ~cell.null /\ cell.s # ""

\* the (row, slot position) pairs of the cleansed inpatient claims that hold a code
FilledSlots(clean) ==
    {p \in (DOMAIN clean.rows) \X (DOMAIN DiagnosisCols(clean)) : SlotFilled(clean, p[1], p[2])}

\* the assignment the claim expects for slot k of claim row i
AssignmentOf(clean, i, k) ==
    <<Col(clean, clean.rows[i], "desynpuf_id"), Col(clean, clean.rows[i], "clm_id"),
      Col(clean, clean.rows[i], "clm_from_dt"),
      Col(clean, clean.rows[i], DiagnosisCols(clean)[k]), Num("int", k)>>

\* C12: once the diagnosis section has run over a cleansed inpatient table
\* that has its id columns: with no slot column the result is absent and no
\* error was raised or logged; otherwise the output holds exactly one
\* assignment (beneficiary id, claim id, claim date, code, k) for every claim
\* row and slot position k (schema order, from 1) whose value is non-null and
\* non-empty, nothing for the other slots, so as many rows as filled slots,
\* and every diagnosis_sequence is at least 1.
C12_OneAssignmentPerFilledSlot ==
    (Unpivoted /\ ~inpatient_clean.isNone /\ ~DiagnosisRaises(inpatient_clean)) =>
        IF DiagnosisCols(inpatient_clean) = <<>>
        THEN /\ diagnosis_normalized.isNone
             /\ "diagnosis_normalized" \notin raised
             /\ <<"error", "diagnosis_normalized">> \notin log
        ELSE /\ ~diagnosis_normalized.isNone
             /\ diagnosis_normalized.cols = DiagnosisOutCols
             /\ Len(diagnosis_normalized.rows) = Cardinality(FilledSlots(inpatient_clean))
             /\ \A p \in FilledSlots(inpatient_clean) :
                   Occurrences(diagnosis_normalized.rows, AssignmentOf(inpatient_clean, p[1], p[2]))
                       = Cardinality({q \in FilledSlots(inpatient_clean) :
                                         AssignmentOf(inpatient_clean, q[1], q[2])
                                             = AssignmentOf(inpatient_clean, p[1], p[2])})
             /\ \A j \in DOMAIN diagnosis_normalized.rows :
                   /\ diagnosis_normalized.rows[j][5].n >= 1
                   /\ ~diagnosis_normalized.rows[j][4].null
                   /\ diagnosis_normalized.rows[j][4].s # ""

C12_Witness ==
    /\ Unpivoted
    /\ ~diagnosis_normalized.isNone
    /\ DiagnosisCols(inpatient_clean) = <<"icd9_dgns_cd_2", "icd9_dgns_cd_1">>
    /\ Len(inpatient_clean.rows) = 2
    /\ Cardinality(FilledSlots(inpatient_clean)) = 2
    /\ SlotFilled(inpatient_clean, 1, 1) /\ ~SlotFilled(inpatient_clean, 1, 2)
    /\ SlotFilled(inpatient_clean, 2, 2) /\ ~SlotFilled(inpatient_clean, 2, 1)
    /\ Len(diagnosis_normalized.rows) = 2

\* the unified row that comes from row j of the k-th available claim type
UnifiedRow(k, j) == claims_unified.rows[RowsBefore(AvailableSubsets, k) + j]

\* a payment cell holds an amount strictly greater than 10000
Above10000(cell) == ~cell.null /\ cell.n > 10000

\* C13: every row of the unified claims output has is_high_cost = true if
\* and only if its payment_amount is strictly greater than 10000, and the
\* flag of a row is the one its claim's own payment gives: false for exactly
\* 10000, for a null payment, and for the 0.0 of a type without payment column.
C13_HighCostIffAbove10000 ==
    (Unified /\ ~claims_unified.isNone) =>
        /\ \A i \in DOMAIN claims_unified.rows :
              /\ Col(claims_unified, claims_unified.rows[i], "is_high_cost").ty = "boolean"
              /\ ~Col(claims_unified, claims_unified.rows[i], "is_high_cost").null
              /\ (Col(claims_unified, claims_unified.rows[i], "is_high_cost").n = 1)
                     <=> Above10000(Col(claims_unified, claims_unified.rows[i], "payment_amount"))
        /\ \A k \in DOMAIN AvailableSubsets : \A j \in DOMAIN AvailableSubsets[k].rows :
              (Col(claims_unified, UnifiedRow(k, j), "is_high_cost").n = 1)
                  <=> Above10000(Col(AvailableSubsets[k], AvailableSubsets[k].rows[j], "payment_amount"))
        /\ (~carrier_clean.isNone /\ ~Has(carrier_df, "clm_pmt_amt")) =>
              \A j \in DOMAIN carrier_clean.rows :
                  /\ Col(carrier_clean, carrier_clean.rows[j], "payment_amount") = Num("double", 0)
                  /\ Col(claims_unified, UnifiedRow(Len(AvailableSubsets), j), "is_high_cost").n = 0

C13_Witness ==
    /\ Unified
    /\ ~claims_unified.isNone
    /\ Len(claims_unified.rows) = 4
    /\ Col(claims_unified, claims_unified.rows[1], "payment_amount") = Num("double", 10000)
    /\ Col(claims_unified, claims_unified.rows[1], "is_high_cost") = Bool(FALSE)
    /\ Col(claims_unified, claims_unified.rows[2], "payment_amount") = Num("double", 10001)
    /\ Col(claims_unified, claims_unified.rows[2], "is_high_cost") = Bool(TRUE)
    /\ Col(claims_unified, claims_unified.rows[3], "payment_amount").null
    /\ Col(claims_unified, claims_unified.rows[3], "is_high_cost") = Bool(FALSE)
    /\ ~Has(carrier_df, "clm_pmt_amt")
    /\ Col(claims_unified, claims_unified.rows[4], "claim_type") = Str("carrier")
    /\ Col(claims_unified, claims_unified.rows[4], "is_high_cost") = Bool(FALSE)

\* the cleansing section is over
Cleansed == pc \notin {"load", "beneficiary", "clean"}

\* the calendar day after day code d
DayAfter(d) ==
    IF DayOf(d) < DaysInMonth(YearOf(d), MonthOf(d)) THEN d + 1
    ELSE IF MonthOf(d) < 12 THEN YearOf(d) * 10000 + (MonthOf(d) + 1) * 100 + 1
    ELSE (YearOf(d) + 1) * 10000 + 101

\* how many times the day must advance to get from a to b, a not after b
RECURSIVE DaysFromTo(_, _)
DaysFromTo(a, b) == IF a = b THEN 0 ELSE 1 + DaysFromTo(DayAfter(a), b)

\* thru minus from, in days
DaysApart(from, thru) == IF from <= thru THEN DaysFromTo(from, thru) ELSE 0 - DaysFromTo(thru, from)

\* the cleansed frame of a claim type and the source it was cleansed from
CleanOf(t) == IF t = "inpatient" THEN inpatient_clean ELSE IF t = "outpatient" THEN outpatient_clean
              ELSE carrier_clean

SourceOf(t) == IF t = "inpatient" THEN inpatient_df ELSE IF t = "outpatient" THEN outpatient_df
               ELSE carrier_df

Parsable(cell) == ~cell.null /\ IsDateCode(cell.n)

\* C14: every claim of every type is kept by the cleansing, and when its from
\* and thru codes are dates, claim_duration_days is the number of days from
\* the from date to the thru date plus 1, both endpoints counted; a thru date
\* before the from date gives 0 or less, as it is.
C14_DurationCountsBothEndpoints ==
    Cleansed =>
        \A t \in {"inpatient", "outpatient", "carrier"} :
            ~CleanOf(t).isNone =>
                /\ Len(CleanOf(t).rows) = Len(SourceOf(t).rows)
                /\ \A i \in DOMAIN SourceOf(t).rows :
                      LET from == Col(SourceOf(t), SourceOf(t).rows[i], "clm_from_dt")
                          thru == Col(SourceOf(t), SourceOf(t).rows[i], "clm_thru_dt")
                          days == Col(CleanOf(t), CleanOf(t).rows[i], "claim_duration_days")
                      IN  (Parsable(from) /\ Parsable(thru)) =>
                             /\ ~days.null
                             /\ days.n = DaysApart(from.n, thru.n) + 1
                             /\ thru.n < from.n => days.n <= 0

C14_Witness ==
    /\ Cleansed
    /\ ~inpatient_clean.isNone /\ ~outpatient_clean.isNone /\ ~carrier_clean.isNone
    /\ Col(inpatient_df, inpatient_df.rows[1], "clm_from_dt").n = 20071231
    /\ Col(inpatient_df, inpatient_df.rows[1], "clm_thru_dt").n = 20080301
    /\ Col(inpatient_clean, inpatient_clean.rows[1], "claim_duration_days") = Num("int", 62)
    /\ Col(outpatient_df, outpatient_df.rows[1], "clm_from_dt").n = 20080301
    /\ Col(outpatient_df, outpatient_df.rows[1], "clm_thru_dt").n = 20080229
    /\ Col(outpatient_clean, outpatient_clean.rows[1], "claim_duration_days") = Num("int", 0)
    /\ Col(carrier_clean, carrier_clean.rows[1], "claim_duration_days") = Num("int", 5)

\* the prescription section is over
Prescribed == pc \in {"diagnosis", "catalog", "summary", "done", "crashed"}

\* C15: over a prescription table that has the columns the cleanser reads,
\* no row makes the section fail, every event is kept, and its cost_per_day
\* is total_cost divided by days_supply when both are greater than 0, and
\* 0.0 otherwise (days_supply or total_cost zero, negative or null); no
\* quotient with a zero divisor is ever produced.
C15_CostPerDayGuarded ==
    (Prescribed /\ ~prescription_df.isNone /\ ~PrescriptionRaises(prescription_df)) =>
        /\ ~prescription_clean.isNone
        /\ "prescriptions_clean" \notin raised
        /\ Len(prescription_clean.rows) = Len(prescription_df.rows)
        /\ \A i \in DOMAIN prescription_clean.rows :
              LET days == Col(prescription_clean, prescription_clean.rows[i], "days_supply")
                  cost == Col(prescription_clean, prescription_clean.rows[i], "total_cost")
                  perday == Col(prescription_clean, prescription_clean.rows[i], "cost_per_day")
              IN  /\ ~perday.null
                  /\ perday.d # 0
                  /\ IF ~days.null /\ ~cost.null /\ days.n > 0 /\ cost.n > 0
                     THEN perday.n * days.n * cost.d = cost.n * perday.d
                     ELSE perday = Num("double", 0)

C15_Witness ==
    /\ Prescribed
    /\ ~prescription_clean.isNone
    /\ Len(prescription_clean.rows) = 2
    /\ Col(prescription_clean, prescription_clean.rows[1], "days_supply") = Num("int", 30)
    /\ Col(prescription_clean, prescription_clean.rows[1], "total_cost") = Num("double", 300)
    /\ Col(prescription_clean, prescription_clean.rows[1], "cost_per_day").n
           = 10 * Col(prescription_clean, prescription_clean.rows[1], "cost_per_day").d
    /\ Col(prescription_clean, prescription_clean.rows[2], "days_supply") = Num("int", 0)
    /\ Col(prescription_clean, prescription_clean.rows[2], "total_cost") = Num("double", 300)
    /\ Col(prescription_clean, prescription_clean.rows[2], "cost_per_day") = Num("double", 0)

\* the beneficiary section is over
HistoryDone == pc \notin {"load", "beneficiary"}

\* the whitelisted indicator columns that the beneficiary table has
IndicatorsPresent(df) == {c \in Range(chronic_cols) : c \in Range(df.cols)}

\* C16: over a beneficiary table that has the columns the section reads
\* besides the indicators, whatever indicators are missing the section does
\* not fail, and the chronic_condition_count of every snapshot is the number
\* of whitelisted indicator columns of the table whose value is '1': between
\* 0 and the number of whitelisted columns present, 0 when none is present.
C16_CountsPresentIndicators ==
    (HistoryDone /\ ~beneficiary_df.isNone /\ ~BeneficiaryRaises(beneficiary_df)) =>
        /\ ~beneficiary_scd.isNone
        /\ "beneficiary_clean" \notin raised
        /\ Len(beneficiary_scd.rows) = Len(beneficiary_df.rows)
        /\ \A i \in DOMAIN beneficiary_df.rows :
              LET marked == {c \in IndicatorsPresent(beneficiary_df) :
                                /\ ~beneficiary_df.rows[i].flags[c].null
                                /\ beneficiary_df.rows[i].flags[c].s = "1"}
                  count == beneficiary_scd.rows[i].chronic_condition_count
              IN  /\ count = Cardinality(marked)
                  /\ count >= 0
                  /\ count <= Cardinality(IndicatorsPresent(beneficiary_df))
                  /\ IndicatorsPresent(beneficiary_df) = {} => count = 0

C16_Witness ==
    /\ HistoryDone
    /\ ~beneficiary_scd.isNone
    /\ Cardinality(IndicatorsPresent(beneficiary_df)) = 11
    /\ beneficiary_scd.rows[1].chronic_condition_count = 2

\* C17: at the end of every run, for each of the four datasets, the result
\* variable of its branch is None (0 records in the summary) if and only if
\* the run did not overwrite the dataset's location, also when the count()
\* that follows a successful write fails.
C17_AbsentIffNotWritten ==
    EndOfRun => \A d \in Datasets : ResultOf(d).isNone <=> d \notin wrote

\* the CSV files under the prefix, and whether validating one gives an error
CsvObjects == {k \in DOMAIN listing.contents : listing.contents[k].csv}

HasError(file) == ~file.readable \/ file.missing_columns \/ file.few_rows \/ file.null_ids

SomeCsvHasError == \E k \in CsvObjects : HasError(listing.contents[k].file)

\* an exception reaches the except block of lambda_handler
HandlerRaises == ~event \/ listing.raises \/ CsvObjects = {}

\* C18: when lambda_handler has returned: the response is PASSED with 200 if
\* and only if there is at least one CSV file and every CSV file validates
\* without error; FAILED with 400 if and only if some CSV file has an error,
\* and exactly then one failure notification was attempted; ERROR with 500
\* whenever the handler itself raised (no files and no CSV files included);
\* whether the notification could be sent does not change the FAILED response.
C18_ValidatorResponse ==
    v_pc = "returned" =>
        /\ response \in {[statusCode |-> 200, validation_status |-> "PASSED"],
                         [statusCode |-> 400, validation_status |-> "FAILED"],
                         [statusCode |-> 500, validation_status |-> "ERROR"]}
        /\ response.validation_status = "PASSED"
              <=> (~HandlerRaises /\ CsvObjects # {} /\ ~SomeCsvHasError)
        /\ response.validation_status = "FAILED" <=> (~HandlerRaises /\ SomeCsvHasError)
        /\ response.validation_status = "FAILED" <=> notification \in {"sent", "failed"}
        /\ response.validation_status = "ERROR" <=> HandlerRaises
        /\ Len(validation_results) = (IF HandlerRaises THEN 0 ELSE Cardinality(CsvObjects))

C18_Witness ==
    /\ v_pc = "returned"
    /\ response = [statusCode |-> 400, validation_status |-> "FAILED"]
    /\ notification = "failed"
    /\ Len(listing.contents) = 3
    /\ Cardinality(CsvObjects) = 2
    /\ \E k \in CsvObjects : ~HasError(listing.contents[k].file)
    /\ \E k \in CsvObjects : ~listing.contents[k].file.readable

====
